---- MODULE Spec2Model ----
(***************************************************************************)
(* Research orchestration of the Autonomous Deep Research Agent.           *)
(*                                                                         *)
(* One research session of the FastAPI backend (api/main.py) and the       *)
(* graph executions that websocket streams start on it.  A graph           *)
(* execution runs the nodes planner -> researcher -> critic ->             *)
(* (planner | writer) of src/graph.py on its own channel values; the       *)
(* websocket handler sends the node's events and merges each node's        *)
(* update into the session state, which approve_plan mutates as well.      *)
(*                                                                         *)
(* Atomic steps are the code between two awaits of the asyncio event loop: *)
(* graph.stream is a synchronous generator, so the merge of one node's     *)
(* update and the execution of the next node happen without interleaving.  *)
(*                                                                         *)
(* Further specifications over the same variables: one search pass of the  *)
(* researcher (SearchSpec, ScenarioSpec, and SearchLiveSpec with the       *)
(* fairness of the event loop), the calls of the SQLite cache (CacheSpec)  *)
(* and of its session store (SessionSpec), and the invocations of the      *)
(* compiled graphs by a caller of run_research, create_research_graph or   *)
(* the websocket handler, with the frames the handler sends (RunSpec).     *)
(***************************************************************************)
EXTENDS Integers, Sequences, FiniteSets, TLC

\* ---------------------------------------------------------------- bounds
MaxRevisionsArg == 2      \* largest max_revisions a start request carries
MaxQueries == 3           \* longest plan a search pass executes
MaxClock == 2             \* latest clock value, in hours
MaxTtlHours == 1          \* largest ttl_hours a cache is configured with
MaxCustomQueries == 2     \* longest plan executed with a provider that can raise
MaxRuns == 2              \* graph invocations of one process

\* ------------------------------------------------------ program constants
min_quality_score == 7    \* QualityConfig.min_quality_score = 7.0
max_parallel_searches == 5    \* SearchConfig.max_parallel_searches
retry_attempts == 3           \* SearchConfig.retry_attempts
retry_delay == 1              \* SearchConfig.retry_delay = 1.0, in seconds
research_data_limit == 15     \* sources[:15] of ResearcherAgent.run
default_max_revisions == 2    \* create_initial_state(topic, max_revisions = 2)

\* the websocket connections opened on the session, possibly at the same time
Streams == {1, 2}
\* ResearchRequest.max_revisions is an unvalidated int: negatives are accepted
RevisionArgs == (0 - 1)..MaxRevisionsArg
CycleCap == MaxRevisionsArg + 3   \* saturation of the cycle counter

\* --------------------------------------------------- inputs of the nodes
\* ResearchPlan.queries returned by the planner's structured LLM call
Plans == {<<"q1">>}
\* PlanApproval.modified_queries (None and [] are both falsy)
ModifiedQueries == {<<>>, <<"m1">>}
\* source lists the researcher returns
SourceLists == {<<"s1">>}
\* QualityAssessment fields the decision reads
\* (overall_score is a float; only its order against 7.0 is read)
Assessments ==
    {[overall_score |-> 6, suggestions |-> <<"gap">>, sufficient |-> FALSE],
     [overall_score |-> 6, suggestions |-> <<>>,      sufficient |-> FALSE],
     [overall_score |-> 6, suggestions |-> <<"gap">>, sufficient |-> TRUE],
     [overall_score |-> 7, suggestions |-> <<"gap">>, sufficient |-> FALSE]}

VARIABLES
    state,                \* research_sessions[session_id]["state"]
    active_connections,   \* manager.active_connections[session_id], 0 if absent
    pc,                   \* position of each websocket handler
    g,                    \* channel values of each stream's graph execution
    next_node,            \* node the graph executes next
    pending,              \* update of the last node, events being sent
    ev,                   \* events sent on each websocket
    h                     \* history of each graph execution

\* one search pass of the researcher (ResearcherAgent.run)
VARIABLES
    providers,            \* self.providers
    batch_queries,        \* state["plan"], the queries of the batch
    tasks,                \* the _search_query coroutine of each (query, provider)
    semaphore,            \* value of asyncio.Semaphore(max_parallel_searches)
    results,              \* what asyncio.gather has collected so far
    batch,                \* position of run: "running", "evaluating", "raised"
    ranked_sources        \* the scored source list run returns

\* the SQLite database of tools/cache.py
VARIABLES
    search_cache,             \* table search_cache: query_hash -> row
    research_sessions_table,  \* table research_sessions: session_id -> row
    now,                      \* datetime.now()
    ttl_hours,                \* ResearchCache.ttl_hours
    put_log,                  \* history: the last cache_results of each key
    last_call                 \* the last call of the cache and what it returned

\* graphs that a caller invokes directly (run_research, graph.invoke)
VARIABLES
    memory,               \* MemorySaver of research_graph: thread_id -> values
    run                   \* the invocation under way, or the last one

mvars == <<state, active_connections, pc, g, next_node, pending, ev, h>>
svars == <<providers, batch_queries, tasks, semaphore, results, batch, ranked_sources>>
cvars == <<search_cache, research_sessions_table, now, ttl_hours, put_log, last_call>>

rvars == <<memory, run>>

vars == <<mvars, svars, cvars, rvars>>

\* ------------------------------------------------------------ src/state.py
NoReport == [is_none |-> TRUE, overall_score |-> 0, suggestions |-> <<>>,
             needs_refinement |-> FALSE]

create_initial_state(max_revisions) ==
    [plan |-> <<>>,
     plan_approved |-> FALSE,
     sources |-> <<>>,
     quality_report |-> NoReport,
     final_report |-> "",
     revision_number |-> 0,
     max_revisions |-> max_revisions,
     status |-> "planning",
     error |-> "None"]

\* ----------------------------------------------------------- the agents
NoUpdate == [node |-> "none"]

PlannerRun(st, queries) ==
    [node |-> "planner", plan |-> queries, status |-> "awaiting_approval"]

ResearcherRun(st, srcs) ==
    [node |-> "researcher", sources |-> srcs, status |-> "evaluating"]

needs_refinement_dropCeiling(a, revision, max_revisions) ==
    ~a.sufficient /\ a.overall_score < min_quality_score

needs_refinement_inclusive(a, revision, max_revisions) ==
    /\ ~a.sufficient
    /\ a.overall_score <= min_quality_score
    /\ revision < max_revisions

needs_refinement(a, revision, max_revisions) ==
    /\ ~a.sufficient
    /\ a.overall_score < min_quality_score
    /\ revision < max_revisions

report_suggestions_keep(a, needs) == a.suggestions

report_suggestions(a, needs) == IF needs THEN a.suggestions ELSE <<>>

next_revision_stuck(revision, needs) == revision

next_revision(revision, needs) == revision + (IF needs THEN 1 ELSE 0)

CriticRun(st, a) ==
    LET needs == needs_refinement(a, st.revision_number, st.max_revisions)
    IN  [node |-> "critic",
         quality_report |-> [is_none |-> FALSE,
                             overall_score |-> a.overall_score,
                             suggestions |-> report_suggestions(a, needs),
                             needs_refinement |-> needs],
         status |-> IF needs THEN "planning" ELSE "writing",
         revision_number |-> next_revision(st.revision_number, needs)]

WriterRun(st) ==
    [node |-> "writer", final_report |-> "report", status |-> "complete"]

\* ----------------------------------------------------------- src/graph.py
should_continue_always_planner(st) == "planner"

should_continue_after_critic(st) ==
    IF st.quality_report.needs_refinement THEN "planner" ELSE "writer"

\* edges of create_research_graph(enable_hitl = False)
Route(node, st) ==
    CASE node = "planner"    -> "researcher"
      [] node = "researcher" -> "critic"
      [] node = "critic"     -> should_continue_after_critic(st)
      [] node = "writer"     -> "END"

\* a channel write / the handler's per-key assignment of an update
Merge(st, u) ==
    [k \in DOMAIN st |-> IF k \in DOMAIN u THEN u[k] ELSE st[k]]

\* ------------------------------------------------------------- the events
NoEvents == [complete |-> 0, error |-> 0, last |-> "none", after_terminal |-> FALSE]

send_json(e, type) ==
    [complete |-> e.complete + (IF type = "complete" THEN 1 ELSE 0),
     error |-> e.error + (IF type = "error" THEN 1 ELSE 0),
     last |-> type,
     after_terminal |-> e.after_terminal \/ e.complete + e.error > 0]

exception_events_silent(e) == e

exception_events(e) == send_json(e, "error")

\* ------------------------------------------------------------ the history
NoAssessment == [overall_score |-> 0, suggestions |-> <<>>, sufficient |-> FALSE]

NoHistory ==
    [started |-> FALSE,         \* the graph execution has begun
     start_revision |-> 0,      \* revision_number of its input
     first |-> FALSE,           \* no other execution had begun on the session
     cycles |-> 0,              \* critic executions (planner->researcher->critic)
     writers |-> 0,             \* writer executions
     prev |-> "START",          \* the node executed before the last one
     last |-> "START",          \* the last node executed
     loop_vote |-> FALSE,       \* needs_refinement when the critic's edge was taken
     evaluated |-> FALSE,       \* the last node executed is the critic
     assessment |-> NoAssessment,   \* the assessment it got
     eval_revision |-> 0,       \* the revision_number it read
     raised |-> FALSE,          \* a node raised
     disconnected |-> FALSE]    \* the observer went away

Bump(n) == IF n < CycleCap THEN n + 1 ELSE n

\* history kept of a graph execution whose handler has returned
Ended(hw) ==
    [NoHistory EXCEPT !.started = TRUE,
                      !.raised = hw.raised,
                      !.disconnected = hw.disconnected]

\* history after `node` executed on channel values st
Executed(hw, node, st, others_started) ==
    [hw EXCEPT !.started = TRUE,
               !.start_revision = IF hw.started THEN @ ELSE st.revision_number,
               !.first = IF hw.started THEN @ ELSE ~others_started,
               !.cycles = IF node = "critic" THEN Bump(@) ELSE @,
               !.writers = IF node = "writer" THEN Bump(@) ELSE @,
               !.prev = hw.last,
               !.last = node,
               !.loop_vote = IF hw.last = "critic"
                             THEN st.quality_report.needs_refinement ELSE FALSE,
               !.evaluated = FALSE,
               !.assessment = NoAssessment,
               !.eval_revision = 0]

\* channel values of a handler that runs no graph
NoChannels == create_initial_state(0)

\* ------------------------------------------------ src/agents/researcher.py
\* strings that are hashed or normalised are sequences of characters
tavily == <<"t", "a", "v", "i", "l", "y">>
wikipedia == <<"w", "i", "k", "i", "p", "e", "d", "i", "a">>
serper == <<"s", "e", "r", "p", "e", "r">>
\* a SearchProvider subclass that a caller registers
custom == <<"c", "u", "s", "t", "o", "m">>

\* TavilySearch.search, WikipediaSearch.search and SerperSearch.search catch
\* every Exception of their body and return []; only another SearchProvider
\* can raise
BuiltIn == {tavily, wikipedia, serper}

\* an exception leaves provider.search
provider_raises_any(provider) == TRUE

provider_raises(provider) == provider \notin BuiltIn

\* _init_providers builds [wikipedia] or [tavily, wikipedia]; the list is a
\* public attribute of the agent, which a caller can clear or extend
ProviderLists ==
    {<<>>, <<wikipedia>>, <<tavily, wikipedia>>, <<custom, wikipedia>>,
     <<wikipedia, serper>>}

\* the k-th query of a plan
Digits == <<"1", "2", "3", "4", "5">>

Query(k) == <<"q", Digits[k]>>

QueryLists == {[k \in 1..n |-> Query(k)] : n \in 0..MaxQueries}

\* What provider.search returns for a query when it finds something.
\* Wikipedia finds the same article for every query; the others find a page
\* of their own for each query and the Wikipedia article as well.  content is kept as
\* its length and its keyword overlap with the topic, which is all that
\* _score_sources reads of it.  The built-in providers leave both scores at
\* the default 0.0 of Source; the registered provider sets scores of its own.
PriorScore(provider) == IF provider \in BuiltIn THEN 0 ELSE 12 * 500

Response(query, provider) ==
    IF provider = wikipedia
    THEN <<[url |-> <<"wiki", "0">>, query |-> query, provider |-> provider,
            length |-> 2000, overlap |-> 1,
            quality_score |-> 0, relevance_score |-> 0]>>
    ELSE <<[url |-> <<"t", query[2]>>, query |-> query, provider |-> provider,
            length |-> 500, overlap |-> 0,
            quality_score |-> PriorScore(provider),
            relevance_score |-> PriorScore(provider)],
           [url |-> <<"wiki", "0">>, query |-> query, provider |-> provider,
            length |-> 3000, overlap |-> IF provider \in BuiltIn THEN 2 ELSE 6,
            quality_score |-> PriorScore(provider),
            relevance_score |-> PriorScore(provider)]>>

Min(a, b) == IF a <= b THEN a ELSE b

\* scores are kept times 500, which makes len(content) / 500 exact
relevance_score_uncapped(source) == source.overlap * 2 * 500

relevance_score(source) == Min(10 * 500, source.overlap * 2 * 500)

quality_score(source) ==
    LET length_score == Min(5 * 500, source.length)
        provider_bonus == IF source.provider \in {tavily, wikipedia} THEN 2 ELSE 0
    IN  Min(10 * 500, length_score + (provider_bonus + 3) * 500)

\* the loop body of _score_sources: both scores of the source are assigned
Scored(source) ==
    [source EXCEPT !.relevance_score = relevance_score(source),
                   !.quality_score = quality_score(source)]

ScoreEach(srcs) == [k \in 1..Len(srcs) |-> Scored(srcs[k])]

\* s.quality_score + s.relevance_score, as the sort reads it once the loop
\* has assigned both scores
SortKey(source) == quality_score(source) + relevance_score(source)

\* list.sort(key, reverse=True): descending and stable
RECURSIVE InsertByKey(_, _)
InsertByKey(sorted, source) ==
    IF sorted = <<>> THEN <<source>>
    ELSE IF SortKey(Head(sorted)) >= SortKey(source)
         THEN <<Head(sorted)>> \o InsertByKey(Tail(sorted), source)
         ELSE <<source>> \o sorted

RECURSIVE SortByKey(_)
SortByKey(seq) ==
    IF seq = <<>> THEN <<>>
    ELSE InsertByKey(SortByKey(SubSeq(seq, 1, Len(seq) - 1)), seq[Len(seq)])

\* scored_sources.sort(key=..., reverse=True)
_score_sources_ties_reversed(srcs) ==
    SortByKey(ScoreEach([k \in 1..Len(srcs) |-> srcs[Len(srcs) + 1 - k]]))

_score_sources(srcs) == SortByKey(ScoreEach(srcs))

\* the (query, provider) of the i-th task: queries outer, providers inner
TaskQuery(i) == batch_queries[((i - 1) \div Len(providers)) + 1]

TaskProvider(i) == providers[((i - 1) % Len(providers)) + 1]

TaskCount == Len(batch_queries) * Len(providers)

\* attempt is the loop variable of _search_query and error the exception
\* bound in its except clause.  The rest is history: overtook says the task
\* ended while an earlier task had not, calls counts the calls of
\* provider.search and waited lists the delays slept so far.
NewTask ==
    [pc |-> "pending", attempt |-> 0, outcome |-> "none", overtook |-> FALSE,
     calls |-> 0, waited |-> <<>>, error |-> "none"]

\* what a provider can raise: a ValueError about its input, or anything else
ErrorKinds == {"malformed", "other"}

\* if attempt < config.search.retry_attempts - 1
may_retry_never(attempt) == FALSE

may_retry_once_more(attempt) == attempt < retry_attempts

may_retry(attempt) == attempt < retry_attempts - 1

\* config.search.retry_delay * (attempt + 1), attempt counted from 0
backoff_from_zero(attempt) == retry_delay * attempt

backoff(attempt) == retry_delay * (attempt + 1)

NotCollected == [set |-> FALSE, sources |-> <<>>]

\* async with semaphore: a task enters only while the value is positive
limited_search_unlimited(value) == TRUE

limited_search(value) == value > 0

\* leaving `async with semaphore`, by return or by exception
release_lost(value) == value

release(value) == value + 1

\* asyncio.gather returns the results in the order of the tasks
gather_as_completed(res, i, r) ==
    LET k == CHOOSE j \in 1..Len(res) :
                 ~res[j].set /\ \A m \in 1..(j - 1) : res[m].set
    IN  [res EXCEPT ![k] = [set |-> TRUE, sources |-> r]]

gather(res, i, r) == [res EXCEPT ![i] = [set |-> TRUE, sources |-> r]]

\* _search_query after the last attempt failed: "return" [] or "raise"
final_failure_raises == "raise"

final_failure == "return"

RECURSIVE Flatten(_)
Flatten(res) ==
    IF res = <<>> THEN <<>> ELSE Head(res).sources \o Flatten(Tail(res))

\* no search pass is running
NoBatch ==
    /\ providers = <<>>
    /\ batch_queries = <<>>
    /\ tasks = <<>>
    /\ semaphore = 0
    /\ results = <<>>
    /\ batch = "none"
    /\ ranked_sources = <<>>

\* ---------------------------------------------------- src/tools/cache.py
\* str.lower and str.strip on the characters that occur
Lower(c) == IF c = "A" THEN "a" ELSE c

lower(str) == [k \in 1..Len(str) |-> Lower(str[k])]

RECURSIVE lstrip(_)
lstrip(str) ==
    IF str # <<>> /\ Head(str) = " " THEN lstrip(Tail(str)) ELSE str

RECURSIVE rstrip(_)
rstrip(str) ==
    IF str # <<>> /\ str[Len(str)] = " "
    THEN rstrip(SubSeq(str, 1, Len(str) - 1)) ELSE str

strip(str) == rstrip(lstrip(str))

\* the key string that is hashed; the SHA-256 digest of a key string
\* stands for the string itself
_hash_query_raw(query, provider) == query \o <<":">> \o provider

_hash_query(query, provider) == strip(lower(query)) \o <<":">> \o provider

None == [is_none |-> TRUE, results |-> <<>>]

Some(payload) == [is_none |-> FALSE, results |-> payload]

\* datetime.fromisoformat(expires_at) > datetime.now()
unexpired_inclusive(expires_at, t) == expires_at >= t

unexpired(expires_at, t) == expires_at > t

Remove(table, key) == [k \in DOMAIN table \ {key} |-> table[k]]

Put(table, key, row) ==
    [k \in DOMAIN table \cup {key} |-> IF k = key THEN row ELSE table[k]]

\* what get_cached_results returns at clock value t
get_cached_results_returns(cache, key, t) ==
    IF key \in DOMAIN cache /\ unexpired(cache[key].expires_at, t)
    THEN Some(cache[key].results) ELSE None

\* the table get_cached_results leaves: an expired row is deleted
get_cached_results_keeps(cache, key, t) == cache

get_cached_results_table(cache, key, t) ==
    IF key \in DOMAIN cache /\ ~unexpired(cache[key].expires_at, t)
    THEN Remove(cache, key) ELSE cache

\* the row INSERT OR REPLACE writes
cache_results_row(query, provider, payload, t, ttl) ==
    [query |-> query, provider |-> provider, results |-> payload,
     created_at |-> t, expires_at |-> t + ttl]

\* the row INSERT OR REPLACE INTO research_sessions writes: created_at is
\* COALESCE(the created_at of the row under the id, now)
save_session_row_recreated(table, id, topic, st, t) ==
    [topic |-> topic, state |-> st, created_at |-> t, updated_at |-> t]

save_session_row(table, id, topic, st, t) ==
    [topic |-> topic, state |-> st,
     created_at |-> IF id \in DOMAIN table THEN table[id].created_at ELSE t,
     updated_at |-> t]

\* load_session: the topic and state saved under the id, or None
load_session(table, session_id) ==
    IF session_id \in DOMAIN table
    THEN [is_none |-> FALSE, topic |-> table[session_id].topic,
          state |-> table[session_id].state]
    ELSE [is_none |-> TRUE, topic |-> "", state |-> <<>>]

EmptyTable == [k \in {} |-> {}]

NoCall == [op |-> "none", query |-> <<>>, provider |-> <<>>, key |-> <<>>,
           returned |-> None]

\* the database as _ensure_db creates it
NoDatabase ==
    /\ search_cache = EmptyTable
    /\ research_sessions_table = EmptyTable
    /\ now = 0
    /\ ttl_hours = 0
    /\ put_log = EmptyTable
    /\ last_call = NoCall

\* ------------------------------------------- graphs invoked by a caller
Topics == {"topic_a", "topic_b"}

\* a state that a run has already used
AgentState_used(topic, max_revisions) ==
    [create_initial_state(max_revisions) EXCEPT !.revision_number = 1]
        @@ [topic |-> topic, research_data |-> <<>>, messages |-> <<"init">>]

\* AgentState(topic=topic, ...) of create_initial_state, with every key
AgentState(topic, max_revisions) ==
    create_initial_state(max_revisions)
        @@ [topic |-> topic, research_data |-> <<>>, messages |-> <<>>]

\* research_data and messages are Annotated[list[str], add]
Reduced == {"research_data", "messages"}

\* channels on which the sources, too, are added to
apply_writes_sources_added(values, u) ==
    [k \in DOMAIN values |->
        IF k \notin DOMAIN u THEN values[k]
        ELSE IF k \in Reduced \cup {"sources"} THEN values[k] \o u[k]
        ELSE u[k]]

\* LangGraph writes an update, or the input of an invocation, to the
\* channels: the annotated keys are added to, the others take the new value
apply_writes(values, u) ==
    [k \in DOMAIN values |->
        IF k \notin DOMAIN u THEN values[k]
        ELSE IF k \in Reduced THEN values[k] \o u[k]
        ELSE u[k]]

\* the ranked source lists of a search pass: one source, or one more than
\* the researcher formats
RankedLists == {[k \in 1..n |-> k] : n \in {1, research_data_limit + 1}}

\* the lists drawn for a pass: the long one on the first pass of an
\* invocation only, which keeps the histories of the invocations few
FoundIn(passes) == IF passes = <<>> THEN RankedLists ELSE {<<1>>}

\* the context the planner adds to its prompt: the suggestions of the
\* quality report on a refinement pass, nothing otherwise
planner_context_none(st) == <<>>

planner_context(st) ==
    IF st.revision_number > 0 /\ ~st.quality_report.is_none
       /\ st.quality_report.suggestions # <<>>
    THEN st.quality_report.suggestions
    ELSE <<>>

\* the entry of research_data the researcher formats of a source
format_source(source) == <<"data", source>>

\* for source in sources[:15]
top_sources_all(srcs) == srcs

top_sources(srcs) == SubSeq(srcs, 1, Min(Len(srcs), research_data_limit))

format_research_data(srcs) ==
    [k \in 1..Len(top_sources(srcs)) |-> format_source(top_sources(srcs)[k])]

\* the updates of the four agents with their log messages
planner_update(st, queries) ==
    PlannerRun(st, queries) @@ [messages |-> <<"Generated", "Strategy">>]

researcher_update(st, srcs) ==
    ResearcherRun(st, srcs)
        @@ [research_data |-> format_research_data(srcs),
            messages |-> <<"Executing", "Collected">>]

critic_update(st, a) ==
    CriticRun(st, a)
        @@ [messages |-> <<"Quality Score", "Strengths",
                           IF CriticRun(st, a).quality_report.needs_refinement
                           THEN "Needs refinement" ELSE "Research sufficient">>]

writer_update(st) ==
    WriterRun(st) @@ [messages |-> <<"Generated report", "Included">>]

\* nodes.py, the nodes of the three-step graph of graph.py
nodes_plan_research(st, queries) == [node |-> "planner", plan |-> queries]

execute_search(st) ==
    [node |-> "researcher", research_data |-> <<format_source(0)>>]

nodes_write_report(st) ==
    [node |-> "writer", final_report |-> "report",
     revision_number |-> st.revision_number + 1]

\* src/graph.py: both branches return "researcher"
check_plan_approval(st) ==
    IF st.plan_approved THEN "researcher" ELSE "researcher"

\* the edge taken after `node`, for each of the graphs
GraphRoute(graph, node, st) ==
    CASE graph = "legacy" /\ node = "planner"    -> "researcher"
      [] graph = "legacy" /\ node = "researcher" -> "writer"
      [] graph = "legacy" /\ node = "writer"     -> "END"
      [] graph = "hitl" /\ node = "planner"      -> check_plan_approval(st)
      [] OTHER                                   -> Route(node, st)

\* the update `node` returns on channel values st
NodeUpdate(graph, node, st, queries, srcs, a) ==
    CASE graph = "legacy" /\ node = "planner"    -> nodes_plan_research(st, queries)
      [] graph = "legacy" /\ node = "researcher" -> execute_search(st)
      [] graph = "legacy" /\ node = "writer"     -> nodes_write_report(st)
      [] graph # "legacy" /\ node = "planner"    -> planner_update(st, queries)
      [] graph # "legacy" /\ node = "researcher" -> researcher_update(st, srcs)
      [] graph # "legacy" /\ node = "critic"     -> critic_update(st, a)
      [] graph # "legacy" /\ node = "writer"     -> writer_update(st)

\* stream_updates of the websocket handler: the frames sent for one update
stream_updates_status_only(u) == <<"status">>

stream_updates(u) ==
    (IF "messages" \in DOMAIN u
     THEN [k \in 1..Len(u.messages) |-> "message"] ELSE <<>>)
    \o (IF "status" \in DOMAIN u THEN <<"status">> ELSE <<>>)
    \o (IF "plan" \in DOMAIN u THEN <<"plan">> ELSE <<>>)
    \o (IF "quality_report" \in DOMAIN u THEN <<"quality">> ELSE <<>>)

\* the keys of the state that hold one value
Replaced == {"plan", "sources", "quality_report", "final_report"}

\* what is kept of an invocation besides its channel values
NoTrace ==
    [prev |-> "START",          \* the node executed before the last one
     executed |-> <<>>,         \* the nodes executed, in order
     feedback |-> <<>>,         \* context of the planner's last prompt
     assessment |-> NoAssessment,   \* the critic's last assessment
     passes |-> <<>>,           \* research_data of each researcher update
     sent |-> <<>>]             \* types of the frames sent on the websocket

\* no graph has been invoked
NoInvocation ==
    [graph |-> "none", number |-> 0, thread_id |-> "none",
     input |-> AgentState("none", 0), started_from |-> AgentState("none", 0),
     values |-> AgentState("none", 0), next |-> "END", last |-> "START",
     latest |-> [k \in Replaced |-> AgentState("none", 0)[k]],
     trace |-> NoTrace]

NoRun ==
    /\ memory = EmptyTable
    /\ run = NoInvocation

\* ----------------------------------------------------------- api/main.py
Init ==
    /\ \E k \in RevisionArgs : state = create_initial_state(k)
    /\ active_connections = 0
    /\ pc = [w \in Streams |-> "idle"]
    /\ g = [w \in Streams |-> NoChannels]
    /\ next_node = [w \in Streams |-> "END"]
    /\ pending = [w \in Streams |-> NoUpdate]
    /\ ev = [w \in Streams |-> NoEvents]
    /\ h = [w \in Streams |-> NoHistory]
    /\ NoBatch
    /\ NoDatabase
    /\ NoRun

\* ConnectionManager.connect: accept, then register under the session id
connect(w) ==
    /\ pc[w] = "idle"
    /\ \A v \in Streams : v < w => pc[v] # "idle"
    /\ pc' = [pc EXCEPT ![w] = "accepted"]
    /\ active_connections' = w
    /\ UNCHANGED <<state, g, next_node, pending, ev, h>>
    /\ UNCHANGED <<svars, cvars, rvars>>

\* ConnectionManager.disconnect: drops whatever is registered under the id
disconnect(conn) == 0

\* the session state once the handler has assigned the pending update
Merged(w) == IF pending[w].node = "none" THEN state ELSE Merge(state, pending[w])

\* the channel values the next node reads: the input on the first step
Channels(w) == IF pc[w] = "accepted" THEN state ELSE g[w]

NextNode(w) == IF pc[w] = "accepted" THEN "planner" ELSE next_node[w]

\* events already sent when the next node runs: "init" before the first one
EventsBefore(w) == IF pc[w] = "accepted" THEN send_json(ev[w], "init") ELSE ev[w]

OthersStarted(w) == \E v \in Streams \ {w} : h[v].started

\* One step of stream_updates: the previous update is assigned to the session
\* state, graph.stream runs `node`, which returns update u, and the handler
\* starts sending u's events.
Advance(w, node, u, hw) ==
    /\ pc[w] \in {"accepted", "streaming"}
    /\ NextNode(w) = node
    /\ state' = Merged(w)
    /\ g' = [g EXCEPT ![w] = Merge(Channels(w), u)]
    /\ next_node' = [next_node EXCEPT ![w] = Route(node, Merge(Channels(w), u))]
    /\ pending' = [pending EXCEPT ![w] = u]
    /\ pc' = [pc EXCEPT ![w] = "streaming"]
    /\ ev' = [ev EXCEPT ![w] = send_json(EventsBefore(w), "update")]
    /\ h' = [h EXCEPT ![w] = hw]
    /\ UNCHANGED <<active_connections, svars, cvars, rvars>>

plan_research(w) ==
    \E q \in Plans :
        Advance(w, "planner", PlannerRun(Channels(w), q),
                Executed(h[w], "planner", Channels(w), OthersStarted(w)))

execute_research(w) ==
    \E s \in SourceLists :
        Advance(w, "researcher", ResearcherRun(Channels(w), s),
                Executed(h[w], "researcher", Channels(w), OthersStarted(w)))

evaluate_research(w) ==
    \E a \in Assessments :
        Advance(w, "critic", CriticRun(Channels(w), a),
                [Executed(h[w], "critic", Channels(w), OthersStarted(w))
                    EXCEPT !.evaluated = TRUE,
                           !.assessment = a,
                           !.eval_revision = Channels(w).revision_number])

write_report(w) ==
    Advance(w, "writer", WriterRun(Channels(w)),
            Executed(h[w], "writer", Channels(w), OthersStarted(w)))

\* a node raises: the exception leaves graph.stream and stream_updates
node_raises(w) ==
    /\ pc[w] \in {"accepted", "streaming"}
    /\ NextNode(w) # "END"
    /\ state' = Merged(w)
    /\ pending' = [pending EXCEPT ![w] = NoUpdate]
    /\ g' = [g EXCEPT ![w] = NoChannels]
    /\ next_node' = [next_node EXCEPT ![w] = "END"]
    /\ pc' = [pc EXCEPT ![w] = "failing"]
    /\ ev' = [ev EXCEPT ![w] = EventsBefore(w)]
    /\ h' = [h EXCEPT ![w] = Ended([h[w] EXCEPT !.raised = TRUE])]
    /\ UNCHANGED <<active_connections, svars, cvars, rvars>>

\* the graph reached END: the last update is assigned and the handler
\* starts sending "complete"
stream_ends(w) ==
    /\ pc[w] = "streaming"
    /\ next_node[w] = "END"
    /\ state' = Merged(w)
    /\ pending' = [pending EXCEPT ![w] = NoUpdate]
    /\ pc' = [pc EXCEPT ![w] = "completing"]
    /\ UNCHANGED <<active_connections, g, next_node, ev, h>>
    /\ UNCHANGED <<svars, cvars, rvars>>

\* the handler returns: finally: manager.disconnect(session_id)
Return(w, events, hw) ==
    /\ pc' = [pc EXCEPT ![w] = "closed"]
    /\ ev' = [ev EXCEPT ![w] = events]
    /\ pending' = [pending EXCEPT ![w] = NoUpdate]
    /\ g' = [g EXCEPT ![w] = NoChannels]
    /\ next_node' = [next_node EXCEPT ![w] = "END"]
    /\ h' = [h EXCEPT ![w] = Ended(hw)]
    /\ active_connections' = disconnect(active_connections)
    /\ UNCHANGED <<state, svars, cvars, rvars>>

\* "complete" has been sent
complete_sent(w) ==
    /\ pc[w] = "completing"
    /\ Return(w, send_json(ev[w], "complete"), h[w])

\* except Exception: "error" has been sent
error_sent(w) ==
    /\ pc[w] = "failing"
    /\ Return(w, exception_events(ev[w]), h[w])

\* a send raises (WebSocketDisconnect, or any exception of the send in the
\* except clause): nothing more is sent or assigned
client_disconnect(w) ==
    /\ pc[w] \in {"accepted", "streaming", "completing", "failing"}
    /\ Return(w, ev[w], [h[w] EXCEPT !.disconnected = TRUE])

\* POST /api/research/{session_id}/approve
approve_plan(approved, modified_queries) ==
    /\ state' = [state EXCEPT
                    !.plan = IF modified_queries # <<>> THEN modified_queries ELSE @,
                    !.plan_approved = approved,
                    !.status = IF approved THEN "researching" ELSE "awaiting_approval"]
    /\ UNCHANGED <<active_connections, pc, g, next_node, pending, ev, h>>
    /\ UNCHANGED <<svars, cvars, rvars>>

Next ==
    \/ \E w \in Streams : connect(w)
    \/ \E w \in Streams : plan_research(w)
    \/ \E w \in Streams : execute_research(w)
    \/ \E w \in Streams : evaluate_research(w)
    \/ \E w \in Streams : write_report(w)
    \/ \E w \in Streams : node_raises(w)
    \/ \E w \in Streams : stream_ends(w)
    \/ \E w \in Streams : complete_sent(w)
    \/ \E w \in Streams : error_sent(w)
    \/ \E w \in Streams : client_disconnect(w)
    \/ \E a \in BOOLEAN, m \in ModifiedQueries : approve_plan(a, m)

Spec == Init /\ [][Next]_vars

\* Runs in which every node call returns and every send succeeds.  The event
\* loop resumes a handler whose await has completed, so each handler step
\* is weakly fair.  approve_plan is left out: it never writes the channel
\* values a graph execution reads.
HandlerStep(w) ==
    \/ connect(w)
    \/ plan_research(w)
    \/ execute_research(w)
    \/ evaluate_research(w)
    \/ write_report(w)
    \/ stream_ends(w)
    \/ complete_sent(w)

NextReturning == \E w \in Streams : HandlerStep(w)

LiveSpec ==
    Init /\ [][NextReturning]_vars /\ \A w \in Streams : WF_vars(HandlerStep(w))

\* ------------------------------------------- a search pass of the researcher
\* the session of api/main.py while no websocket is open on it
MainIdle ==
    /\ state = create_initial_state(0)
    /\ active_connections = 0
    /\ pc = [w \in Streams |-> "idle"]
    /\ g = [w \in Streams |-> NoChannels]
    /\ next_node = [w \in Streams |-> "END"]
    /\ pending = [w \in Streams |-> NoUpdate]
    /\ ev = [w \in Streams |-> NoEvents]
    /\ h = [w \in Streams |-> NoHistory]

\* a cache that holds, unexpired, what Wikipedia returns for every query
WikipediaKeys == {_hash_query(Query(k), wikipedia) : k \in 1..MaxQueries}

WikipediaCached ==
    [key \in WikipediaKeys |->
        LET k == CHOOSE k \in 1..MaxQueries : _hash_query(Query(k), wikipedia) = key
        IN  cache_results_row(Query(k), wikipedia, Response(Query(k), wikipedia), 0, 1)]

CanRaise(ps) == \E k \in 1..Len(ps) : ps[k] \notin BuiltIn

\* run has created one coroutine per (query, provider) and the semaphore;
\* asyncio.gather has scheduled them
SearchInit ==
    /\ MainIdle
    /\ \E ps \in ProviderLists, qs \in QueryLists :
          /\ CanRaise(ps) => Len(qs) <= MaxCustomQueries
          /\ providers = ps
          /\ batch_queries = qs
          /\ tasks = [i \in 1..(Len(qs) * Len(ps)) |-> NewTask]
          /\ results = [i \in 1..(Len(qs) * Len(ps)) |-> NotCollected]
    /\ semaphore = max_parallel_searches
    /\ batch = "running"
    /\ ranked_sources = <<>>
    /\ search_cache = WikipediaCached
    /\ research_sessions_table = EmptyTable
    /\ now = 0
    /\ ttl_hours = 1
    /\ put_log = EmptyTable
    /\ last_call = NoCall
    /\ NoRun

Overtakes(i) == \E j \in 1..(i - 1) : tasks[j].pc # "done"

\* limited_search: the semaphore wakes its waiters in the order they came
acquire(i) ==
    /\ batch = "running"
    /\ tasks[i].pc = "pending"
    /\ \A j \in 1..(i - 1) : tasks[j].pc # "pending"
    /\ limited_search(semaphore)
    /\ semaphore' = semaphore - 1
    /\ tasks' = [tasks EXCEPT ![i].pc = "calling", ![i].calls = @ + 1]
    /\ UNCHANGED <<providers, batch_queries, results, batch, ranked_sources>>
    /\ UNCHANGED <<mvars, cvars, rvars>>

\* provider.search returns what it found, or [] (nothing found, or a
\* built-in provider caught its own exception): the task returns that and
\* releases the semaphore
search_returns(i) ==
    /\ batch = "running"
    /\ tasks[i].pc = "calling"
    /\ \E found \in BOOLEAN :
          /\ tasks' = [tasks EXCEPT
                           ![i].pc = "done", ![i].attempt = 0,
                           ![i].outcome = IF found THEN "returned" ELSE "empty",
                           ![i].overtook = Overtakes(i)]
          /\ results' = gather(results, i,
                               IF found THEN Response(TaskQuery(i), TaskProvider(i))
                               ELSE <<>>)
    /\ semaphore' = release(semaphore)
    /\ UNCHANGED <<providers, batch_queries, batch, ranked_sources>>
    /\ UNCHANGED <<mvars, cvars, rvars>>

\* provider.search raises: sleep before the next attempt, or give up after
\* the last one
search_raises(i) ==
    /\ batch = "running"
    /\ tasks[i].pc = "calling"
    /\ provider_raises(TaskProvider(i))
    /\ IF may_retry(tasks[i].attempt)
       THEN /\ \E kind \in ErrorKinds :
                  tasks' = [tasks EXCEPT
                               ![i].pc = "sleeping", ![i].error = kind,
                               ![i].waited = Append(@, backoff(tasks[i].attempt))]
            /\ UNCHANGED <<results, semaphore, batch>>
       ELSE IF final_failure = "return"
       THEN /\ tasks' = [tasks EXCEPT ![i].pc = "done", ![i].attempt = 0,
                                      ![i].outcome = "exhausted",
                                      ![i].overtook = Overtakes(i)]
            /\ results' = gather(results, i, <<>>)
            /\ semaphore' = release(semaphore)
            /\ UNCHANGED batch
       ELSE /\ tasks' = [tasks EXCEPT ![i].pc = "done", ![i].attempt = 0,
                                      ![i].outcome = "raised",
                                      ![i].overtook = Overtakes(i)]
            /\ semaphore' = release(semaphore)
            /\ batch' = "raised"
            /\ UNCHANGED results
    /\ UNCHANGED <<providers, batch_queries, ranked_sources>>
    /\ UNCHANGED <<mvars, cvars, rvars>>

\* asyncio.sleep(retry_delay * (attempt + 1)) is over
retry(i) ==
    /\ batch = "running"
    /\ tasks[i].pc = "sleeping"
    /\ tasks' = [tasks EXCEPT ![i].pc = "calling", ![i].attempt = @ + 1,
                              ![i].calls = @ + 1, ![i].error = "none"]
    /\ UNCHANGED <<providers, batch_queries, semaphore, results, batch, ranked_sources>>
    /\ UNCHANGED <<mvars, cvars, rvars>>

\* gather returns, the results are flattened and run scores them; the
\* Source objects of the results are the ones scored, in place
score_and_return ==
    /\ batch = "running"
    /\ \A i \in 1..Len(tasks) : tasks[i].pc = "done"
    /\ ranked_sources' = _score_sources(Flatten(results))
    /\ results' = [i \in 1..Len(results) |->
                      [results[i] EXCEPT !.sources = ScoreEach(@)]]
    /\ batch' = "evaluating"
    /\ UNCHANGED <<providers, batch_queries, tasks, semaphore>>
    /\ UNCHANGED <<mvars, cvars, rvars>>

SearchNext ==
    \/ \E i \in 1..Len(tasks) : acquire(i)
    \/ \E i \in 1..Len(tasks) : search_returns(i)
    \/ \E i \in 1..Len(tasks) : search_raises(i)
    \/ \E i \in 1..Len(tasks) : retry(i)
    \/ score_and_return

SearchSpec == SearchInit /\ [][SearchNext]_vars

\* the event loop runs a task that can run, as long as there is one: a
\* semaphore waiter is woken, a provider call ends (one way or the other), a
\* sleep ends, gather returns
SearchLiveSpec ==
    /\ SearchInit
    /\ [][SearchNext]_vars
    /\ WF_vars(\E i \in 1..Len(tasks) :
                  acquire(i) \/ search_returns(i) \/ search_raises(i) \/ retry(i))
    /\ WF_batch(/\ batch = "running"
                /\ \A i \in 1..Len(tasks) : tasks[i].pc = "done"
                /\ batch' = "evaluating")

\* ------------------------------- a search pass with one failing provider
\* Two queries and two providers under a semaphore of 2: Wikipedia, which
\* finds its article on every call, and a registered provider that raises on
\* every call.
ScenarioInit ==
    /\ MainIdle
    /\ providers \in {<<wikipedia, custom>>, <<custom, wikipedia>>}
    /\ batch_queries = <<Query(1), Query(2)>>
    /\ tasks = [i \in 1..4 |-> NewTask]
    /\ results = [i \in 1..4 |-> NotCollected]
    /\ semaphore = 2
    /\ batch = "running"
    /\ ranked_sources = <<>>
    /\ search_cache = EmptyTable
    /\ research_sessions_table = EmptyTable
    /\ now = 0
    /\ ttl_hours = 1
    /\ put_log = EmptyTable
    /\ last_call = NoCall
    /\ NoRun

a_returns(i) ==
    /\ TaskProvider(i) = wikipedia
    /\ search_returns(i)
    /\ tasks'[i].outcome = "returned"

b_raises(i) ==
    /\ TaskProvider(i) = custom
    /\ search_raises(i)

ScenarioNext ==
    \/ \E i \in 1..Len(tasks) : acquire(i)
    \/ \E i \in 1..Len(tasks) : a_returns(i)
    \/ \E i \in 1..Len(tasks) : b_raises(i)
    \/ \E i \in 1..Len(tasks) : retry(i)
    \/ score_and_return

ScenarioSpec == ScenarioInit /\ [][ScenarioNext]_vars

\* ------------------------------------------------- calls of the cache
\* the (query, provider) arguments of the calls: a query, the same query in
\* another case and padded, a query that holds a colon, and a provider
\* whose name holds one
CacheCalls ==
    {<<(<<"a">>), wikipedia>>,
     <<(<<" ", "A", " ">>), wikipedia>>,
     <<(<<"a">>), tavily>>,
     <<(<<"a", ":", "x">>), wikipedia>>,
     <<(<<"a">>), <<"x", ":">> \o wikipedia>>}

\* results: the list of source dicts that is stored
Payloads == {<<"r1">>, <<"r2">>}

CacheInit ==
    /\ MainIdle
    /\ NoBatch
    /\ search_cache = EmptyTable
    /\ research_sessions_table = EmptyTable
    /\ now = 0
    /\ ttl_hours \in 0..MaxTtlHours
    /\ put_log = EmptyTable
    /\ last_call = NoCall
    /\ NoRun

cache_results(query, provider, payload) ==
    LET query_hash == _hash_query(query, provider)
        row == cache_results_row(query, provider, payload, now, ttl_hours)
    IN  /\ search_cache' = Put(search_cache, query_hash, row)
        /\ put_log' = Put(put_log, query_hash,
                          [results |-> payload, expires_at |-> row.expires_at])
        /\ last_call' = [op |-> "put", query |-> query, provider |-> provider,
                         key |-> query_hash, returned |-> None]
        /\ UNCHANGED <<research_sessions_table, now, ttl_hours>>
        /\ UNCHANGED <<mvars, svars, rvars>>

get_cached_results(query, provider) ==
    LET query_hash == _hash_query(query, provider)
    IN  /\ search_cache' = get_cached_results_table(search_cache, query_hash, now)
        /\ last_call' = [op |-> "get", query |-> query, provider |-> provider,
                         key |-> query_hash,
                         returned |-> get_cached_results_returns(search_cache,
                                                                 query_hash, now)]
        /\ UNCHANGED <<research_sessions_table, now, ttl_hours, put_log>>
        /\ UNCHANGED <<mvars, svars, rvars>>

\* DELETE FROM search_cache WHERE expires_at < now
clear_expired ==
    /\ search_cache' =
          [k \in {j \in DOMAIN search_cache : ~(search_cache[j].expires_at < now)}
               |-> search_cache[k]]
    /\ last_call' = [NoCall EXCEPT !.op = "clear"]
    /\ UNCHANGED <<research_sessions_table, now, ttl_hours, put_log>>
    /\ UNCHANGED <<mvars, svars, rvars>>

\* time passes between two calls
tick ==
    /\ now < MaxClock
    /\ now' = now + 1
    /\ UNCHANGED <<search_cache, research_sessions_table, ttl_hours, put_log, last_call>>
    /\ UNCHANGED <<mvars, svars, rvars>>

CacheNext ==
    \/ \E c \in CacheCalls, payload \in Payloads : cache_results(c[1], c[2], payload)
    \/ \E c \in CacheCalls : get_cached_results(c[1], c[2])
    \/ clear_expired
    \/ tick

CacheSpec == CacheInit /\ [][CacheNext]_vars

\* ------------------------------------------- calls of the session store
SessionIds == {"id_1", "id_2"}

SavedStates == {<<"planning">>, <<"complete">>}

\* a database whose search_cache holds rows, and no session
SessionInit ==
    /\ MainIdle
    /\ NoBatch
    /\ NoRun
    /\ search_cache = WikipediaCached
    /\ research_sessions_table = EmptyTable
    /\ now = 0
    /\ ttl_hours = 1
    /\ put_log = EmptyTable
    /\ last_call = NoCall

save_session(id, topic, st) ==
    /\ research_sessions_table' =
          Put(research_sessions_table, id,
              save_session_row(research_sessions_table, id, topic, st, now))
    /\ last_call' = [op |-> "save", id |-> id, topic |-> topic, state |-> st]
    /\ UNCHANGED <<search_cache, now, ttl_hours, put_log>>
    /\ UNCHANGED <<mvars, svars, rvars>>

SessionNext ==
    \/ \E id \in SessionIds, topic \in Topics, st \in SavedStates :
          save_session(id, topic, st)
    \/ tick

SessionSpec == SessionInit /\ [][SessionNext]_vars

\* ------------------------------------- invocations of the compiled graphs
RunInit ==
    /\ MainIdle
    /\ NoBatch
    /\ NoDatabase
    /\ NoRun

\* "complete" has been sent on the websocket
Closed(sent) == sent # <<>> /\ sent[Len(sent)] = "complete"

\* graph.invoke(input, thread_config) once the previous invocation has
\* returned.  With a checkpointer that holds the thread, the input is written
\* to the thread's channels; the checkpoint of the first step is saved.
Invoke(graph, thread_id, input, saved) ==
    LET start == IF saved /\ thread_id \in DOMAIN memory
                 THEN apply_writes(memory[thread_id], input)
                 ELSE input
    IN  /\ run.next = "END"
        /\ run.graph = "stream" => Closed(run.trace.sent)
        /\ run.number < MaxRuns
        /\ run' = [graph |-> graph, number |-> run.number + 1,
                   thread_id |-> thread_id, input |-> input,
                   started_from |-> start, values |-> start,
                   next |-> "planner", last |-> "START",
                   latest |-> [k \in Replaced |-> input[k]],
                   trace |-> [NoTrace EXCEPT !.sent = IF graph = "stream"
                                                      THEN <<"init">> ELSE <<>>]]
        /\ memory' = IF saved THEN Put(memory, thread_id, start) ELSE memory
        /\ UNCHANGED <<mvars, svars, cvars>>

\* run_research(topic): the module's research_graph and its MemorySaver,
\* thread_id = f"research_{hash(topic)}"
run_research(topic) ==
    Invoke("research_graph", topic, AgentState(topic, default_max_revisions), TRUE)

\* create_research_graph(enable_hitl=True).invoke(state, thread_config) on a
\* state whose plan is, or is not, approved; the graph has its own MemorySaver
invoke_hitl(topic, max_revisions, approved) ==
    Invoke("hitl", topic,
           [AgentState(topic, max_revisions) EXCEPT !.plan_approved = approved],
           FALSE)

\* graph.py: research_graph.invoke(state) of the graph compiled without a
\* checkpointer
invoke_legacy(topic) ==
    Invoke("legacy", topic, AgentState(topic, default_max_revisions), FALSE)

\* websocket_research: "init" is sent, the graph is created for the stream
\* (its own MemorySaver, enable_hitl=False) and graph.stream starts on the
\* session's state
websocket_research(topic, max_revisions) ==
    Invoke("stream", topic, AgentState(topic, max_revisions), FALSE)

\* stream_updates has returned: "complete" is sent with the final report
stream_complete ==
    /\ run.graph = "stream"
    /\ run.next = "END"
    /\ ~Closed(run.trace.sent)
    /\ run' = [run EXCEPT !.trace.sent = Append(@, "complete")]
    /\ UNCHANGED <<memory, mvars, svars, cvars>>

\* the trace of the invocation after `node` ran on st and returned u, the
\* critic having got assessment a
Traced(t, graph, node, st, u, a) ==
    [prev |-> IF t.executed = <<>> THEN "START" ELSE t.executed[Len(t.executed)],
     executed |-> Append(t.executed, node),
     feedback |-> IF node # "planner" THEN t.feedback
                  ELSE IF graph = "legacy" THEN <<>>
                  ELSE planner_context(st),
     assessment |-> IF node = "critic" THEN a ELSE t.assessment,
     passes |-> IF node = "researcher" THEN Append(t.passes, u.research_data)
                ELSE t.passes,
     sent |-> IF graph = "stream" THEN t.sent \o stream_updates(u) ELSE t.sent]

\* one step of the invocation: `node` runs on the channel values, its update
\* is written and the edge out of it is taken
execute_node(node) ==
    /\ run.next = node
    /\ \E q \in Plans, s \in FoundIn(run.trace.passes), a \in Assessments :
          LET u == NodeUpdate(run.graph, node, run.values, q, s, a)
              v == apply_writes(run.values, u)
          IN  /\ run' = [run EXCEPT !.values = v,
                                    !.next = GraphRoute(run.graph, node, v),
                                    !.last = node,
                                    !.latest = [k \in Replaced |->
                                                  IF k \in DOMAIN u THEN u[k]
                                                  ELSE @[k]],
                                    !.trace = Traced(@, run.graph, node,
                                                     run.values, u, a)]
              /\ memory' = IF run.graph = "research_graph"
                           THEN Put(memory, run.thread_id, v)
                           ELSE memory
    /\ UNCHANGED <<mvars, svars, cvars>>

planner_node == execute_node("planner")

researcher_node == execute_node("researcher")

critic_node == execute_node("critic")

writer_node == execute_node("writer")

RunNext ==
    \/ \E topic \in Topics : run_research(topic)
    \/ \E topic \in Topics, k \in RevisionArgs, approved \in BOOLEAN :
          invoke_hitl(topic, k, approved)
    \/ \E topic \in Topics : invoke_legacy(topic)
    \/ \E topic \in Topics, k \in RevisionArgs : websocket_research(topic, k)
    \/ stream_complete
    \/ planner_node
    \/ researcher_node
    \/ critic_node
    \/ writer_node

RunSpec == RunInit /\ [][RunNext]_vars

\* ------------------------------------------------------------- properties
Running(w) == pc[w] = "streaming"

TerminalEvents(w) == ev[w].complete + ev[w].error

\* C1: with max_revisions = k >= 0 a graph execution runs the
\* planner->researcher->critic cycle at most k+1 times, the critic never
\* decides CONTINUE once revision_number has reached k, and with k = 0 the
\* first evaluation accepts and routes to the writer.
C1_IterationCeiling ==
    \A w \in Streams :
        g[w].max_revisions >= 0 =>
            /\ h[w].cycles <= g[w].max_revisions + 1
            /\ (h[w].evaluated /\ h[w].eval_revision >= g[w].max_revisions)
                   => /\ ~g[w].quality_report.needs_refinement
                      /\ next_node[w] = "writer"
            /\ (h[w].evaluated /\ g[w].max_revisions = 0)
                   => /\ ~g[w].quality_report.needs_refinement
                      /\ g[w].status = "writing"
                      /\ next_node[w] = "writer"

\* the critic meets the ceiling after a loop, with a failing assessment
C1_Witness ==
    \E w \in Streams :
        /\ h[w].evaluated
        /\ g[w].max_revisions >= 1
        /\ h[w].eval_revision = g[w].max_revisions
        /\ h[w].cycles = g[w].max_revisions + 1
        /\ ~h[w].assessment.sufficient
        /\ h[w].assessment.overall_score < min_quality_score

\* C2: a run whose node calls all return eventually executes the writer
\* and ends with status "complete", however the critic scores.
C2_EventuallyComplete ==
    \A w \in Streams :
        (pc[w] = "accepted") ~>
            /\ pc[w] = "completing"
            /\ h[w].writers = 1
            /\ g[w].status = "complete"
            /\ state.status = "complete"
            /\ state.final_report # ""

\* a run ends after the score stayed below the threshold in every cycle
C2_Witness ==
    \E w \in Streams :
        /\ pc[w] = "completing"
        /\ h[w].writers = 1
        /\ g[w].max_revisions >= 1
        /\ h[w].cycles = g[w].max_revisions + 1
        /\ g[w].quality_report.overall_score < min_quality_score

\* C3: revision_number <= max_revisions in every reachable state, from the
\* initial state on, for every accepted max_revisions.
C3_RevisionWithinMax ==
    /\ state.revision_number <= state.max_revisions
    /\ \A w \in Streams : Running(w) => g[w].revision_number <= g[w].max_revisions

\* C4 as stated: CONTINUE iff overall_score < threshold and
\* iteration < max_iterations, whatever the other fields of the assessment.
C4_DecisionAsStated ==
    \A w \in Streams :
        h[w].evaluated =>
            (g[w].quality_report.needs_refinement <=>
                /\ h[w].assessment.overall_score < min_quality_score
                /\ h[w].eval_revision < g[w].max_revisions)

\* C4 amended: CONTINUE iff the assessment is not flagged sufficient and
\* overall_score < threshold and revision_number < max_revisions; in every
\* other case ACCEPT, routed to the writer.
C4_DecisionWithSufficient ==
    \A w \in Streams :
        h[w].evaluated =>
            LET continue == /\ ~h[w].assessment.sufficient
                            /\ h[w].assessment.overall_score < min_quality_score
                            /\ h[w].eval_revision < g[w].max_revisions
            IN  /\ g[w].quality_report.needs_refinement <=> continue
                /\ next_node[w] = (IF continue THEN "planner" ELSE "writer")
                /\ g[w].status = (IF continue THEN "planning" ELSE "writing")

\* both decisions are taken below the ceiling
C4_Witness ==
    /\ \E w \in Streams :
          /\ h[w].evaluated
          /\ h[w].eval_revision < g[w].max_revisions
          /\ h[w].assessment.sufficient
          /\ h[w].assessment.overall_score < min_quality_score
          /\ ~g[w].quality_report.needs_refinement
    /\ \E w \in Streams :
          /\ h[w].evaluated
          /\ g[w].quality_report.needs_refinement

\* C5: a quality report that accepts has no suggestions, in the graph's
\* channel values, in the update being sent and in the session state.
AcceptHasNoGaps(report) ==
    (~report.is_none /\ ~report.needs_refinement) => report.suggestions = <<>>

C5_AcceptClearsGaps ==
    /\ AcceptHasNoGaps(state.quality_report)
    /\ \A w \in Streams :
          /\ AcceptHasNoGaps(g[w].quality_report)
          /\ pending[w].node = "critic" => AcceptHasNoGaps(pending[w].quality_report)

\* an assessment with suggestions is accepted
C5_Witness ==
    \E w \in Streams :
        /\ h[w].evaluated
        /\ h[w].assessment.suggestions # <<>>
        /\ ~g[w].quality_report.needs_refinement
        /\ pending[w].node = "critic"

\* C6: the session is created in the planning phase with iteration 0 and
\* the first graph execution on it starts there; the nodes of every graph
\* execution follow only planner->researcher, researcher->critic,
\* critic->planner (only on CONTINUE), critic->writer (only on ACCEPT) and
\* writer->END, and the writer runs at most once, as the last node.
Edges ==
    {<<"START", "START">>, <<"START", "planner">>, <<"planner", "researcher">>,
     <<"researcher", "critic">>, <<"critic", "planner">>, <<"critic", "writer">>}

C7_TerminalIsFrozen ==
    [][state.status = "complete" =>
          /\ state'.status = state.status
          /\ state'.plan = state.plan
          /\ state'.plan_approved = state.plan_approved
          /\ state'.final_report = state.final_report]_vars

\* C8: final_report is non-empty only if the status is "complete".
C8_ReportOnlyWhenComplete ==
    state.final_report # "" => state.status = "complete"

\* C9: when a node raises, the session state holds exactly what the earlier
\* phases wrote, its status becomes "error" and the reason is recorded.
C9_FailureRecorded ==
    [][\A w \in Streams :
          (~h[w].raised /\ h'[w].raised) =>
              /\ state'.plan = Merged(w).plan
              /\ state'.sources = Merged(w).sources
              /\ state'.quality_report = Merged(w).quality_report
              /\ state'.final_report = Merged(w).final_report
              /\ state'.status = "error"
              /\ state'.error # "None"]_vars

\* C10 as stated: every stream ends with exactly one terminal event, which
\* is its last event.
C10_ExactlyOneTerminal ==
    \A w \in Streams :
        pc[w] = "closed" =>
            /\ TerminalEvents(w) = 1
            /\ ev[w].last \in {"complete", "error"}
            /\ ~ev[w].after_terminal

\* C10 amended: no stream sends more than one terminal event or anything
\* after it; a stream whose sends all succeed ends with exactly one, its
\* last event; a stream whose observer is gone ends with none.
C10_OneTerminalUnlessDisconnected ==
    \A w \in Streams :
        /\ TerminalEvents(w) <= 1
        /\ ~ev[w].after_terminal
        /\ TerminalEvents(w) = 1 => (pc[w] = "closed" /\ ev[w].last \in {"complete", "error"})
        /\ (pc[w] = "closed" /\ ~h[w].disconnected) => TerminalEvents(w) = 1
        /\ (pc[w] = "closed" /\ h[w].disconnected) => TerminalEvents(w) = 0
        /\ (pc[w] = "closed" /\ ~h[w].disconnected) =>
               (ev[w].error = 1 <=> h[w].raised)

\* one stream ended with "complete" and another with "error"
C10_Witness ==
    /\ \E w \in Streams : pc[w] = "closed" /\ ev[w].last = "complete"
    /\ \E w \in Streams : pc[w] = "closed" /\ ev[w].last = "error"

\* C11: after every node of a run the run's snapshot is in the session
\* store before the next node starts: load_session of the run's id returns
\* the state as of the latest completed transition.
session_id == "session"

C11_SnapshotSaved ==
    \A w \in Streams :
        Running(w) =>
            LET snapshot == load_session(research_sessions_table, session_id)
            IN  /\ ~snapshot.is_none
                /\ snapshot.state = g[w]

\* C12: at every instant of a batch, whatever the interleaving, at most
\* max_parallel_searches provider.search calls are in flight, counted over
\* all queries and providers of the batch.
InFlight == {i \in 1..Len(tasks) : tasks[i].pc = "calling"}

C12_InFlightBounded == Cardinality(InFlight) <= max_parallel_searches

\* the limit is reached by calls of three queries while a task waits
C12_Witness ==
    /\ Cardinality(InFlight) = max_parallel_searches
    /\ \E i \in 1..Len(tasks) : tasks[i].pc = "pending"
    /\ Cardinality({TaskQuery(i) : i \in InFlight}) = 3

\* C13: no provider.search call is made for a (query, provider) that has
\* an unexpired entry in the result cache, so a batch whose pairs are all
\* cached calls no provider.
Cached(query, provider) ==
    ~get_cached_results_returns(search_cache, _hash_query(query, provider), now).is_none

C13_CachedPairsNotCalled ==
    \A i \in 1..Len(tasks) :
        Cached(TaskQuery(i), TaskProvider(i)) =>
            /\ tasks[i].pc \in {"pending", "done"}
            /\ tasks[i].pc = "done" =>
                   results[i].sources =
                       search_cache[_hash_query(TaskQuery(i), TaskProvider(i))].results

\* C14: the source list a search pass produces holds no two sources with
\* the same URL (equal URLs have equal normalized URLs), the one with the
\* highest quality_score + relevance_score being the one kept.
C14_NoDuplicateUrls ==
    batch = "evaluating" =>
        /\ \A i, j \in 1..Len(ranked_sources) :
              i # j => ranked_sources[i].url # ranked_sources[j].url
        /\ \A r \in {results[i].sources : i \in 1..Len(results)} :
              \A k \in 1..Len(r) :
                  \E m \in 1..Len(ranked_sources) :
                      /\ ranked_sources[m].url = r[k].url
                      /\ SortKey(ranked_sources[m]) >= SortKey(r[k])

\* C15: when every attempt of some (query, provider) pairs raises, the
\* batch still returns normally: a failed pair contributes no source, the
\* result holds exactly the sources of the pairs that returned, and no
\* failure raises out of the batch or stops the other tasks.
Exhausted == {i \in 1..Len(tasks) : tasks[i].outcome = "exhausted"}

Returned == {i \in 1..Len(tasks) : tasks[i].outcome = "returned"}

SourcesOf(seq) == {seq[k] : k \in 1..Len(seq)}

\* the sources task i's provider found, as they are once the batch is scored
Found(i) == ScoreEach(Response(TaskQuery(i), TaskProvider(i)))

ResponseLen(i) == Len(Response(TaskQuery(i), TaskProvider(i)))

RECURSIVE ResponseLenSum(_)
ResponseLenSum(S) ==
    IF S = {} THEN 0
    ELSE LET i == CHOOSE i \in S : TRUE
         IN  ResponseLen(i) + ResponseLenSum(S \ {i})

C15_FailuresAbsorbed ==
    /\ batch # "raised"
    /\ \A i \in Exhausted : results[i] = [set |-> TRUE, sources |-> <<>>]
    /\ \A i \in 1..Len(tasks) : tasks[i].outcome # "raised"
    /\ batch = "evaluating" =>
          /\ SourcesOf(ranked_sources) =
                 UNION {SourcesOf(Found(i)) : i \in Returned}
          /\ Len(ranked_sources) = ResponseLenSum(Returned)

\* a pair failed three times, a later task returned, the batch ended
C15_Witness ==
    /\ batch = "evaluating"
    /\ \E i \in Exhausted : \E j \in Returned : j > i
    /\ \E i \in Exhausted : \E j \in Returned : j < i
    /\ ranked_sources # <<>>

\* C16: a batch executed with an empty provider set raises and the run
\* fails; it never returns an empty source list for evaluation.
C16_EmptyProvidersRaise ==
    providers = <<>> => batch # "evaluating"

\* C20: the ranked sequence a batch returns is fixed by the queries, the
\* providers and what each provider call answered: the sources of the
\* tasks in task order, ranked by descending score with ties in that
\* order, whatever the order in which the tasks completed.
Answer(i) ==
    [sources |-> IF i \in Returned THEN Found(i) ELSE <<>>]

Aggregate == Flatten([i \in 1..Len(tasks) |-> Answer(i)])

Position(seq, source) == CHOOSE k \in 1..Len(seq) : seq[k] = source

C20_OrderIndependent ==
    batch = "evaluating" =>
        /\ Len(ranked_sources) = Len(Aggregate)
        /\ SourcesOf(ranked_sources) = SourcesOf(Aggregate)
        /\ \A a, b \in 1..Len(ranked_sources) :
              a < b =>
                \/ SortKey(ranked_sources[a]) > SortKey(ranked_sources[b])
                \/ /\ SortKey(ranked_sources[a]) = SortKey(ranked_sources[b])
                   /\ Position(Aggregate, ranked_sources[a])
                          < Position(Aggregate, ranked_sources[b])

\* a batch ended whose later tasks completed before earlier ones and
\* returned sources of equal score
C20_Witness ==
    /\ batch = "evaluating"
    /\ \E i, j \in Returned :
          /\ i < j
          /\ tasks[j].overtook
          /\ \E s \in SourcesOf(Response(TaskQuery(i), TaskProvider(i))) :
                \E t \in SourcesOf(Response(TaskQuery(j), TaskProvider(j))) :
                    SortKey(s) = SortKey(t)

\* the calls the cache knows of: the last one and those that wrote its rows
KnownCalls ==
    {[query |-> search_cache[k].query, provider |-> search_cache[k].provider,
      key |-> k] : k \in DOMAIN search_cache}
    \cup (IF last_call.op \in {"put", "get"}
          THEN {[query |-> last_call.query, provider |-> last_call.provider,
                 key |-> last_call.key]}
          ELSE {})

SameLetter(c, d) == c = d \/ {c, d} = {"a", "A"}

Blank(str, from, to) == \A k \in from..to : str[k] = " "

\* the query without the whitespace around it
Trimmed(str) ==
    CHOOSE core \in {SubSeq(str, a, b) : a \in 1..(Len(str) + 1), b \in 0..Len(str)} :
        /\ core = <<>> \/ (core[1] # " " /\ core[Len(core)] # " ")
        /\ \E a \in 0..Len(str) :
              /\ a + Len(core) <= Len(str)
              /\ SubSeq(str, a + 1, a + Len(core)) = core
              /\ Blank(str, 1, a)
              /\ Blank(str, a + Len(core) + 1, Len(str))

\* the queries differ at most in letter case and surrounding whitespace
SameNormalized(q1, q2) ==
    /\ Len(Trimmed(q1)) = Len(Trimmed(q2))
    /\ \A k \in 1..Len(Trimmed(q1)) : SameLetter(Trimmed(q1)[k], Trimmed(q2)[k])

HasColon(str) == \E k \in 1..Len(str) : str[k] = ":"

\* C17 as stated: two calls have the same key string if and only if their
\* queries differ at most in case and surrounding whitespace and their
\* providers are the same, whatever the provider names are.
C17_KeyInjective ==
    \A c, d \in KnownCalls :
        (c.key = d.key) <=>
            (SameNormalized(c.query, d.query) /\ c.provider = d.provider)

\* C17 amended: queries that differ only in case or surrounding whitespace
\* have the same key for the same provider, and two calls whose provider
\* names hold no colon have the same key only if their normalized queries
\* and their providers are the same.
C17_KeyInjectiveWithoutColon ==
    \A c, d \in KnownCalls :
        /\ (SameNormalized(c.query, d.query) /\ c.provider = d.provider)
               => c.key = d.key
        /\ (c.key = d.key /\ ~HasColon(c.provider) /\ ~HasColon(d.provider))
               => (SameNormalized(c.query, d.query) /\ c.provider = d.provider)

\* a read in another case and padding hit the row of a query, while rows of
\* a query with a colon and of another provider are stored under other keys
C17_Witness ==
    /\ last_call.op = "get"
    /\ ~last_call.returned.is_none
    /\ search_cache[last_call.key].query # last_call.query
    /\ \E k \in DOMAIN search_cache :
          HasColon(search_cache[k].query) /\ ~HasColon(search_cache[k].provider)
    /\ Cardinality(DOMAIN search_cache) = 3

\* the step is a call of get_cached_results
GetStep == last_call'.op = "get" /\ now' = now

\* C18: get_cached_results returns the payload stored last under the key
\* if that entry has not expired and None otherwise; a read that finds an
\* expired row deletes that row and no other, and a read of an unexpired
\* row leaves the table as it is.
C18_ReadReturnsLatestUnexpired ==
    [][GetStep =>
          LET key == last_call'.key
              live == key \in DOMAIN put_log /\ put_log[key].expires_at > now
          IN  /\ last_call'.returned =
                     (IF live THEN Some(put_log[key].results) ELSE None)
              /\ live => search_cache' = search_cache
              /\ (key \in DOMAIN search_cache /\ ~live) =>
                     search_cache' = Remove(search_cache, key)
              /\ key \notin DOMAIN search_cache => search_cache' = search_cache]_vars

\* a read at the very instant its entry expires found it expired and
\* deleted it, the other rows staying
C18_Witness ==
    /\ last_call.op = "get"
    /\ last_call.returned.is_none
    /\ ttl_hours > 0
    /\ last_call.key \in DOMAIN put_log
    /\ put_log[last_call.key].expires_at = now
    /\ last_call.key \notin DOMAIN search_cache
    /\ search_cache # EmptyTable

\* C19: with ttl 0 no read returns an entry, not even a read at the clock
\* value of the insert.
C19_ZeroTtlNeverReturned ==
    (ttl_hours = 0 /\ last_call.op = "get") => last_call.returned.is_none

\* the read at the clock value of the insert found the entry expired
C19_Witness ==
    /\ ttl_hours = 0
    /\ last_call.op = "get"
    /\ last_call.key \in DOMAIN put_log
    /\ put_log[last_call.key].expires_at = now
    /\ last_call.key \notin DOMAIN search_cache
    /\ last_call.returned.is_none

\* what the call of task i that has just ended handed back
Handed(i) ==
    IF tasks[i].outcome = "returned"
    THEN Response(TaskQuery(i), TaskProvider(i)) ELSE <<>>

\* C27: for one (query, provider) pair provider.search is called at most
\* retry_attempts times; the first call that returns ends the task with what
\* it returned; a failure before the last attempt is followed by a wait and
\* the failure of the last attempt ends the task with [] while the batch
\* goes on; a task that has ended makes no further call.
C27_BoundedAttempts ==
    [][\A i \in 1..Len(tasks) :
          /\ tasks'[i].calls <= retry_attempts
          /\ tasks[i].pc = "done" => tasks'[i] = tasks[i]
          /\ tasks[i].pc = "calling" /\ tasks'[i].pc = "done"
                                     /\ tasks'[i].outcome \in {"returned", "empty"}
                => /\ tasks'[i].calls = tasks[i].calls
                   /\ results'[i] = [set |-> TRUE, sources |-> Handed(i)']
          /\ tasks[i].pc = "calling" /\ tasks'[i].pc # "calling"
                                     /\ tasks'[i].outcome \notin {"returned", "empty"}
                => IF tasks[i].calls < retry_attempts
                   THEN tasks'[i].pc = "sleeping" /\ ~results'[i].set
                   ELSE /\ tasks'[i].pc = "done"
                        /\ tasks'[i].calls = retry_attempts
                        /\ results'[i] = [set |-> TRUE, sources |-> <<>>]
                        /\ batch' = "running"]_vars

\* one pair has failed retry_attempts times and returned [], another has
\* returned sources from its second call
C27_Witness ==
    \E i, j \in 1..Len(tasks) :
        /\ tasks[i].outcome = "exhausted"
        /\ tasks[i].calls = retry_attempts
        /\ results[i] = [set |-> TRUE, sources |-> <<>>]
        /\ tasks[j].outcome = "returned"
        /\ tasks[j].calls = 2
        /\ results[j].sources # <<>>

\* the waits a task has asked for once it has made the given number of calls
\* and the last of them is, or is not, followed by a wait
LinearWaits(n) == [k \in 1..n |-> retry_delay * k]

\* C28: the wait between failed attempt i and attempt i + 1 is
\* retry_delay * i, for i = 1 .. retry_attempts - 1, and there is no wait
\* after an attempt that returned or after the last failed attempt.
C28_LinearBackoff ==
    \A i \in 1..Len(tasks) :
        /\ tasks[i].pc = "sleeping"
              => /\ tasks[i].calls < retry_attempts
                 /\ tasks[i].waited = LinearWaits(tasks[i].calls)
        /\ tasks[i].pc \in {"calling", "done"}
              => tasks[i].waited = LinearWaits(tasks[i].calls - 1)
        /\ tasks[i].pc = "pending" => tasks[i].waited = <<>>

\* a pair has failed every attempt and has waited 1 s then 2 s, and a pair
\* that returned from its first call has not waited
C28_Witness ==
    \E i, j \in 1..Len(tasks) :
        /\ tasks[i].outcome = "exhausted"
        /\ tasks[i].waited = <<retry_delay, retry_delay * 2>>
        /\ tasks[j].outcome = "returned"
        /\ tasks[j].calls = 1
        /\ tasks[j].waited = <<>>

\* C29: after provider.search has failed with a malformed-input error the
\* pair is not called again and does not wait for another attempt.
C29_MalformedNotRetried ==
    [][\A i \in 1..Len(tasks) :
          /\ tasks[i].error = "malformed" => tasks'[i].calls = tasks[i].calls
          /\ tasks'[i].error = "malformed" => tasks'[i].pc # "sleeping"]_vars

\* where a source was submitted: its query's place in the plan, then its
\* provider's place in the provider list, then its place in the response
IndexOf(seq, x) == CHOOSE k \in 1..Len(seq) : seq[k] = x

Submitted(source) ==
    << IndexOf(batch_queries, source.query),
       IndexOf(providers, source.provider),
       IndexOf(ScoreEach(Response(source.query, source.provider)), source) >>

Earlier(a, b) ==
    \/ a[1] < b[1]
    \/ a[1] = b[1] /\ a[2] < b[2]
    \/ a[1] = b[1] /\ a[2] = b[2] /\ a[3] < b[3]

\* C30: the scored list holds the sources in non-increasing order of
\* quality_score + relevance_score, and two sources of equal score stand in
\* the order of their submission: query-major, provider-minor.
C30_SortedAndStable ==
    batch = "evaluating" =>
        \A a, b \in 1..Len(ranked_sources) :
            a < b =>
                /\ SortKey(ranked_sources[a]) >= SortKey(ranked_sources[b])
                /\ SortKey(ranked_sources[a]) = SortKey(ranked_sources[b])
                      => Earlier(Submitted(ranked_sources[a]),
                                 Submitted(ranked_sources[b]))

\* the sort moved a source forward, and left two sources of equal score, of
\* different queries, in the order of their queries
C30_Witness ==
    /\ batch = "evaluating"
    /\ \E a, b \in 1..Len(ranked_sources) :
          /\ a < b
          /\ SortKey(ranked_sources[a]) = SortKey(ranked_sources[b])
          /\ ranked_sources[a].query # ranked_sources[b].query
    /\ \E a, b \in 1..Len(ranked_sources) :
          /\ a < b
          /\ Earlier(Submitted(ranked_sources[b]), Submitted(ranked_sources[a]))

\* C22: with two queries, a semaphore of 2, a provider that returns one
\* source on every call and a provider that raises on every call, the batch
\* never fails; when it is handed to the evaluation the first provider has
\* been called once and the second retry_attempts times for each query, and
\* the scored list is exactly the two sources of the first provider.
C22_FailingProviderScenario ==
    /\ batch # "raised"
    /\ Cardinality(InFlight) <= 2
    /\ batch = "evaluating" =>
          /\ \A i \in 1..Len(tasks) :
                tasks[i].calls = IF TaskProvider(i) = wikipedia
                                 THEN 1 ELSE retry_attempts
          /\ ranked_sources = << Scored(Response(Query(1), wikipedia)[1]),
                                 Scored(Response(Query(2), wikipedia)[1]) >>

\* the batch has been scored after the failing provider gave up on both
\* queries, once after the other provider had already answered
C22_Witness ==
    /\ batch = "evaluating"
    /\ Len(ranked_sources) = 2
    /\ Cardinality(Exhausted) = 2
    /\ Cardinality(Returned) = 2
    /\ \E i \in Returned : tasks[i].overtook

\* stream w is in its search phase: the researcher is the node graph.stream
\* runs next, or its update is being sent and is not yet assigned
Searching(w) ==
    /\ pc[w] = "streaming"
    /\ next_node[w] = "researcher" \/ pending[w].node = "researcher"

\* the run of stream w is abandoned: its observer goes away
Cancelled(w) == ~h[w].disconnected /\ h'[w].disconnected

C21_ResultsDiscarded ==
    [][\A w \in Streams :
          Searching(w) /\ Cancelled(w)
              => /\ state'.sources = state.sources
                 /\ pending'[w] = NoUpdate
                 /\ next_node'[w] = "END"]_vars

\* C25: create_initial_state(topic, max_revisions) is a state in the planning
\* phase with iteration 0 and nothing produced: the topic is the input, plan,
\* sources, research_data and messages are empty, quality_report and error
\* are absent, final_report is empty and plan_approved is false.  (An
\* invocation with enable_hitl may set plan_approved on its input.)
C25_InitialState ==
    run.graph # "none" =>
        /\ run.input.topic = run.thread_id
        /\ run.input.status = "planning"
        /\ run.input.revision_number = 0
        /\ run.input.plan = <<>>
        /\ run.input.sources = <<>>
        /\ run.input.research_data = <<>>
        /\ run.input.quality_report = NoReport
        /\ run.input.final_report = ""
        /\ run.graph # "hitl" => run.input.plan_approved = FALSE
        /\ run.input.error = "None"
        /\ run.input.messages = <<>>

\* a second invocation, for another topic and with max_revisions = 0, has
\* moved on from the initial state it was given
C25_Witness ==
    /\ run.number = 2
    /\ run.input = [AgentState("topic_b", 0) EXCEPT !.plan_approved = run.input.plan_approved]
    /\ run.values.plan # <<>>
    /\ run.values.messages # <<>>

\* the keys of AgentState that a run produces
Produced ==
    {"plan", "sources", "research_data", "messages", "quality_report",
     "revision_number"}

\* C23: what a run starts from does not depend on an earlier run: the first
\* node of an invocation reads, for every key a run produces, the value of
\* the invocation's own input.
C23_RunsShareNoState ==
    run.graph # "none" =>
        \A k \in Produced : run.started_from[k] = run.input[k]

\* the part of C23 that holds: an invocation on a thread the checkpointer
\* does not hold starts from its input
C23_FreshThreadStartsFromInput ==
    [][\A topic \in Topics :
          run'.number # run.number /\ run'.thread_id = topic
                                   /\ topic \notin DOMAIN memory
              => run'.started_from = run'.input]_vars

\* C24: with enable_hitl the graph leaves the planner for the researcher
\* only when plan_approved is true; while the plan is not approved the
\* invocation ends after the planner and no search is executed.
C24_ApprovalChecked ==
    run.graph = "hitl" /\ ~run.values.plan_approved =>
        /\ run.last \in {"START", "planner"}
        /\ run.last = "planner" => run.next = "END"

\* a step of an invocation under way
NodeStep == run'.number = run.number /\ run' # run

\* C26: a step changes revision_number only if it is the critic's and the
\* critic decides to continue, and then by exactly 1; every other step of the
\* run leaves it unchanged.
C26_RevisionOnlyOnContinue ==
    [][NodeStep =>
          run'.values.revision_number =
              IF run.next = "critic" /\ run'.values.quality_report.needs_refinement
              THEN run.values.revision_number + 1
              ELSE run.values.revision_number]_vars

\* C26 for the graphs of src/graph.py alone
C26_AgentsGraph ==
    [][NodeStep /\ run.graph # "legacy" =>
          run'.values.revision_number =
              IF run.next = "critic" /\ run'.values.quality_report.needs_refinement
              THEN run.values.revision_number + 1
              ELSE run.values.revision_number]_vars

\* a call of clear_expired
ClearStep == last_call'.op = "clear" /\ now' = now

\* C40: clear_expired removes exactly the rows that a read at the same clock
\* value would treat as expired, leaves the rows a read would return as they
\* are, and leaves the research_sessions table unchanged.
C40_ClearAgreesWithRead ==
    [][ClearStep =>
          /\ \A key \in DOMAIN search_cache :
                IF get_cached_results_returns(search_cache, key, now) = None
                THEN key \notin DOMAIN search_cache'
                ELSE /\ key \in DOMAIN search_cache'
                     /\ search_cache'[key] = search_cache[key]
          /\ DOMAIN search_cache' \subseteq DOMAIN search_cache
          /\ research_sessions_table' = research_sessions_table]_vars

\* the part of C40 that holds: clear_expired removes no row a read would
\* return, changes no row it keeps, and removes every row that expired
\* before the current clock value
C40_ClearRemovesOnlyExpired ==
    [][ClearStep =>
          /\ \A key \in DOMAIN search_cache :
                /\ get_cached_results_returns(search_cache, key, now) # None
                      => /\ key \in DOMAIN search_cache'
                         /\ search_cache'[key] = search_cache[key]
                /\ search_cache[key].expires_at < now
                      => key \notin DOMAIN search_cache'
          /\ DOMAIN search_cache' \subseteq DOMAIN search_cache
          /\ research_sessions_table' = research_sessions_table]_vars

\* a call of save_session
SaveStep == last_call'.op = "save" /\ now' = now

Loaded(table, id) == load_session(table, id)

\* C38: after save_session(id, topic, state), load_session(id) returns that
\* topic and state; load_session of an id never saved returns None; the
\* created_at of a session is the time of its first save; a save leaves the
\* other sessions and the search_cache as they are, and nothing but a save
\* changes a session.
C38_LastSaveWins ==
    [][/\ SaveStep =>
             /\ Loaded(research_sessions_table', last_call'.id) =
                    [is_none |-> FALSE, topic |-> last_call'.topic,
                     state |-> last_call'.state]
             /\ research_sessions_table'[last_call'.id].created_at =
                    IF Loaded(research_sessions_table, last_call'.id).is_none
                    THEN now
                    ELSE research_sessions_table[last_call'.id].created_at
             /\ \A id \in SessionIds \ {last_call'.id} :
                    /\ Loaded(research_sessions_table', id) =
                           Loaded(research_sessions_table, id)
                    /\ id \in DOMAIN research_sessions_table
                           => research_sessions_table'[id] = research_sessions_table[id]
             /\ search_cache' = search_cache
       /\ ~SaveStep => research_sessions_table' = research_sessions_table
       /\ \A id \in SessionIds :
             Loaded(research_sessions_table', id).is_none
                 => Loaded(research_sessions_table, id).is_none]_vars

\* a session saved at hour 0 and saved again, with another topic and state,
\* at hour 2, next to a session saved once and a non-empty search_cache
C38_Witness ==
    /\ search_cache # EmptyTable
    /\ DOMAIN research_sessions_table = SessionIds
    /\ research_sessions_table["id_1"].created_at = 0
    /\ research_sessions_table["id_1"].updated_at = 2
    /\ Loaded(research_sessions_table, "id_1") =
           [is_none |-> FALSE, topic |-> "topic_b", state |-> <<"complete">>]
    /\ research_sessions_table["id_2"].created_at = 1
    /\ research_sessions_table["id_2"].updated_at = 1

\* the websocket of stream w is accepted and its handler has not returned
Open(w) == pc[w] \in {"accepted", "streaming", "completing", "failing"}

\* C39: while a websocket of the session is open the session is registered
\* in active_connections, under the connection opened last among the open
\* ones: a returning handler removes only its own registration.
C39_OpenSessionRegistered ==
    \A w \in Streams :
        Open(w) /\ (\A v \in Streams : Open(v) => v <= w)
            => active_connections = w

\* the part of C39 that holds: the registration is always the connection
\* accepted last, or none
C39_RegisteredIsLatestOrNone ==
    \/ active_connections = 0
    \/ /\ active_connections \in Streams
       /\ pc[active_connections] # "idle"
       /\ \A v \in Streams : pc[v] # "idle" => v <= active_connections

\* ---------------------------------------------------------------------
\* C31: once a batch is scored, every source carries relevance_score =
\* min(10, 2 * overlap) and quality_score = min(10, min(5, length / 500) +
\* bonus + 3), bonus 2 for tavily and wikipedia and 0 otherwise; both lie in
\* [0, 10], whatever score the provider had put on the source (scores are
\* kept times 500).
ExpectedRelevance(s) == IF 2 * s.overlap >= 10 THEN 10 * 500 ELSE 2 * s.overlap * 500

ExpectedQuality(s) ==
    LET len5 == IF s.length >= 5 * 500 THEN 5 * 500 ELSE s.length
        bonus == IF s.provider = tavily \/ s.provider = wikipedia THEN 2 ELSE 0
        total == len5 + (bonus + 3) * 500
    IN  IF total >= 10 * 500 THEN 10 * 500 ELSE total

ScoredAsSpecified(s) ==
    /\ s.relevance_score = ExpectedRelevance(s)
    /\ s.quality_score = ExpectedQuality(s)
    /\ s.relevance_score \in 0..(10 * 500)
    /\ s.quality_score \in 0..(10 * 500)

C31_ScoresAsSpecified ==
    batch = "evaluating" =>
        /\ \A k \in 1..Len(ranked_sources) : ScoredAsSpecified(ranked_sources[k])
        /\ \A i \in 1..Len(results) : \A k \in 1..Len(results[i].sources) :
               ScoredAsSpecified(results[i].sources[k])

\* a scored batch holds a source whose provider had given it scores above 10
\* and whose overlap alone would give more than 10, next to a built-in one
C31_Witness ==
    /\ batch = "evaluating"
    /\ \E k \in 1..Len(ranked_sources) :
           /\ PriorScore(ranked_sources[k].provider) > 10 * 500
           /\ 2 * ranked_sources[k].overlap > 10
           /\ ranked_sources[k].relevance_score = 10 * 500
    /\ \E k \in 1..Len(ranked_sources) :
           /\ ranked_sources[k].provider = wikipedia
           /\ ranked_sources[k].quality_score = 9 * 500

\* ---------------------------------------------------------------------
\* C32: plan, sources, quality_report and final_report of an invocation hold
\* the value of the latest update that carried them (the input's until then);
\* after a search pass the sources are that pass's sources and no others.
C32_LatestValueOnly ==
    run.graph # "none" =>
        /\ \A k \in Replaced : run.values[k] = run.latest[k]
        /\ (run.last = "researcher" /\ run.graph # "legacy") =>
               run.trace.passes[Len(run.trace.passes)] =
                   [k \in 1..Min(Len(run.values.sources), research_data_limit) |->
                       format_source(run.values.sources[k])]

\* a second search pass has returned other sources than the first one
C32_Witness ==
    /\ run.last = "researcher"
    /\ Len(run.trace.passes) = 2
    /\ Len(run.trace.passes[1]) = research_data_limit
    /\ run.values.sources = <<1>>
    /\ ~run.values.quality_report.is_none

\* ---------------------------------------------------------------------
\* C33: the planner's prompt carries the suggestions of the latest quality
\* report when the planner runs after the critic decided to continue, and
\* nothing on the first planning pass; with no suggestions it carries
\* nothing.
C33_FeedbackIsLatestSuggestions ==
    (run.graph \in {"research_graph", "hitl", "stream"} /\ run.last = "planner") =>
        IF run.trace.prev = "critic"
        THEN /\ run.trace.feedback = run.values.quality_report.suggestions
             /\ run.trace.feedback = run.trace.assessment.suggestions
        ELSE /\ run.trace.prev = "START"
             /\ run.trace.feedback = <<>>

\* the planner has run again with the gap the critic reported
C33_Witness ==
    /\ run.last = "planner"
    /\ run.trace.prev = "critic"
    /\ run.values.revision_number = 1
    /\ run.trace.feedback = <<"gap">>

\* ---------------------------------------------------------------------
\* C34: each node execution produces exactly one event for the observer of
\* the websocket: the frames sent after "init", the terminal one apart, are
\* as many as the node executions.
Frames(sent, types) == SelectSeq(sent, LAMBDA f : f \in types)

C34_OneEventPerNode ==
    run.graph = "stream" =>
        Len(Frames(run.trace.sent, {"message", "status", "plan", "quality"}))
            = Len(run.trace.executed)

\* the frames the handler sends for the update of one node
FramesOf(node) ==
    CASE node = "planner"    -> <<"message", "message", "status", "plan">>
      [] node = "researcher" -> <<"message", "message", "status">>
      [] node = "critic"     -> <<"message", "message", "message", "status", "quality">>
      [] node = "writer"     -> <<"message", "message", "status">>

RECURSIVE FramesOfAll(_)
FramesOfAll(nodes) ==
    IF nodes = <<>> THEN <<>> ELSE FramesOf(Head(nodes)) \o FramesOfAll(Tail(nodes))

\* C34, as the handler does it: for each node execution the observer gets
\* one "message" frame per log message of the node, then exactly one
\* "status" frame, then "plan" after the planner and "quality" after the
\* critic, all between "init" and the terminal frame.
C34_OneStatusPerNode ==
    run.graph = "stream" =>
        /\ Len(Frames(run.trace.sent, {"status"})) = Len(run.trace.executed)
        /\ Frames(run.trace.sent, {"message", "status", "plan", "quality"})
               = FramesOfAll(run.trace.executed)
        /\ run.trace.sent[1] = "init"
        /\ Len(Frames(run.trace.sent, {"init", "complete"}))
               = 1 + (IF Closed(run.trace.sent) THEN 1 ELSE 0)

\* a stream with one refinement loop has sent "complete"
C34_Witness ==
    /\ run.graph = "stream"
    /\ Closed(run.trace.sent)
    /\ run.trace.executed = <<"planner", "researcher", "critic",
                              "planner", "researcher", "critic", "writer">>

\* ---------------------------------------------------------------------
\* C35: research_data is appended to by every search pass and never reset:
\* it is what the invocation started from followed by the entries of its
\* passes in order, each pass giving at most 15 entries, those of its
\* top-ranked sources; the critic and the writer read all of them.
RECURSIVE Concat(_)
Concat(seqs) == IF seqs = <<>> THEN <<>> ELSE Head(seqs) \o Concat(Tail(seqs))

C35_ResearchDataAppended ==
    run.graph # "none" =>
        /\ run.values.research_data =
               run.started_from.research_data \o Concat(run.trace.passes)
        /\ \A n \in 1..Len(run.trace.passes) :
               Len(run.trace.passes[n]) <= research_data_limit
        /\ (run.last = "researcher" /\ run.graph # "legacy") =>
               \A k \in 1..Len(run.trace.passes[Len(run.trace.passes)]) :
                   run.trace.passes[Len(run.trace.passes)][k]
                       = format_source(run.values.sources[k])

\* the writer has run after two passes, the first one rejected by the critic
\* and cut to 15 entries
C35_Witness ==
    /\ run.last = "writer"
    /\ run.started_from.research_data = <<>>
    /\ Len(run.trace.passes) = 2
    /\ Len(run.trace.passes[1]) = research_data_limit
    /\ Len(run.values.research_data) = research_data_limit + 1

BatchOver ==
    /\ batch = "evaluating"
    /\ Len(results) = TaskCount
    /\ \A i \in 1..Len(tasks) : tasks[i].pc = "done" /\ tasks[i].calls >= 1
    /\ \A i \in 1..Len(results) : results[i].set
    /\ semaphore = max_parallel_searches

C37_EveryTaskCompletes == <>BatchOver

\* a batch of more tasks than permits is over
C37_Witness ==
    /\ BatchOver
    /\ TaskCount > max_parallel_searches

\* C37, the permits: between the steps of a batch the permits taken are those
\* of the tasks that are calling or sleeping, and a task that waits for one
\* waits for a task that holds one.
Holding == {i \in 1..Len(tasks) : tasks[i].pc \in {"calling", "sleeping"}}

C37_PermitsAccounted ==
    batch = "running" =>
        /\ semaphore = max_parallel_searches - Cardinality(Holding)
        /\ semaphore >= 0
        /\ (\E i \in 1..Len(tasks) : tasks[i].pc = "pending") =>
               semaphore > 0 \/ Holding # {}

====
